---- MODULE Spec2Model ----
(***************************************************************************)
(* A model of rank-eval: the binary relevance metrics of src/binary.rs,    *)
(* the batch evaluators of src/batch.rs, the parsing and grouping          *)
(* functions of src/trec.rs and the graded metrics of src/graded.rs.       *)
(*                                                                         *)
(* f64 values are modelled as exact rationals [n, d] in lowest terms with  *)
(* d > 0, extended with the IEEE non-finite values: NaN is 0/0, +inf is    *)
(* 1/0 and -inf is -1/0.  1/log2(i+2) is a table of four-digit fixed-point *)
(* values (positive and strictly decreasing, like the function).           *)
(***************************************************************************)
EXTENDS Integers, Sequences, FiniteSets, TLC

VARIABLES
    ranked,         \* binary metrics: the ranked list of ids (a sequence)
    relevant,       \* binary metrics: the set of relevant ids
    k,              \* the cutoff of the last metric call
    param,          \* persistence (rbp_at_k) or beta (f_measure_at_k) of the last call
    n_relevant,     \* the n_relevant argument of the last idcg_at_k call
    op,             \* the name of the function called last ("none" before any call)
    out,            \* the value the last call returned
    runs,           \* evaluate_trec_batch: the TrecRun records
    qrels,          \* evaluate_trec_batch: the Qrel records
    rankings,       \* evaluate_batch_binary: one ranked list per query
    rel_sets,       \* evaluate_batch_binary: one relevant set per query
    metrics,        \* the requested metric names
    picked,         \* evaluate_trec_batch: query -> run tag keys().next() yielded
    results,        \* the BatchResults of the last batch call, or NoResults
    grouped,        \* the map group_runs_by_query / group_qrels_by_query returned
    file,           \* load_trec_runs / load_qrels: the lines of the file read
    parsed,         \* the Result of the last load_* call, or NoParse
    graded_qrels,   \* graded metrics: the map document id -> relevance grade
    require_relevant,   \* validate_metric_inputs: the flag of the last call
    validated,      \* the Result of the last validate_* call, or NotValidated
    method_a,       \* statistics: the scores of method A
    method_b,       \* statistics: the scores of method B
    alpha,          \* paired_t_test: the significance level
    stat_result     \* what the last paired_t_test / cohens_d call returned

binvars == <<ranked, relevant, k, param, n_relevant, op, out>>
batchvars == <<runs, qrels, rankings, rel_sets, metrics, picked, results>>
trecvars == <<grouped, file, parsed, graded_qrels>>
valvars == <<require_relevant, validated>>
statvars == <<method_a, method_b, alpha, stat_result>>
vars == <<ranked, relevant, k, param, n_relevant, op, out,
          runs, qrels, rankings, rel_sets, metrics, picked, results,
          grouped, file, parsed, graded_qrels,
          require_relevant, validated, method_a, method_b, alpha, stat_result>>

----------------------------------------------------------------------------
(* Bounds of the model.                                                    *)

MaxLen == 3         \* longest ranked list of the metric calls
MaxK == 4           \* largest cutoff of the metric calls (beyond MaxLen)

Docs == {"d1", "d2", "d3"}

----------------------------------------------------------------------------
(* f64 arithmetic.                                                         *)

Min(a, b) == IF a <= b THEN a ELSE b

Abs(x) == IF x < 0 THEN -x ELSE x

Sign(x) == IF x < 0 THEN -1 ELSE IF x > 0 THEN 1 ELSE 0

RECURSIVE GCD(_, _)
GCD(a, b) == IF b = 0 THEN a ELSE GCD(b, a % b)

Rat(n, d) ==
    LET g == GCD(Abs(n), Abs(d))
        s == IF d < 0 THEN -1 ELSE 1
    IN  [n |-> s * (n \div g), d |-> s * (d \div g)]

Zero == [n |-> 0, d |-> 1]
One == [n |-> 1, d |-> 1]
NaN == [n |-> 0, d |-> 0]
Inf(s) == [n |-> s, d |-> 0]

IsNaN(a) == a.d = 0 /\ a.n = 0
IsFinite(a) == a.d # 0

Neg(a) == [n |-> -a.n, d |-> a.d]

Add(a, b) ==
    IF IsNaN(a) \/ IsNaN(b) THEN NaN
    ELSE IF IsFinite(a) /\ IsFinite(b)
         THEN LET g == GCD(a.d, b.d)
                  l == (a.d \div g) * b.d
              IN  Rat(a.n * (l \div a.d) + b.n * (l \div b.d), l)
    ELSE IF ~IsFinite(a) /\ ~IsFinite(b)
         THEN (IF a.n = b.n THEN a ELSE NaN)
    ELSE IF IsFinite(a) THEN b ELSE a

Sub(a, b) == Add(a, Neg(b))

Mul(a, b) ==
    IF IsNaN(a) \/ IsNaN(b) THEN NaN
    ELSE IF IsFinite(a) /\ IsFinite(b)
         THEN LET g1 == GCD(Abs(a.n), b.d)
                  g2 == GCD(Abs(b.n), a.d)
              IN  [n |-> (a.n \div g1) * (b.n \div g2),
                   d |-> (a.d \div g2) * (b.d \div g1)]
    ELSE IF a.n = 0 \/ b.n = 0 THEN NaN
    ELSE Inf(Sign(a.n) * Sign(b.n))

Div(a, b) ==
    IF IsNaN(a) \/ IsNaN(b) THEN NaN
    ELSE IF IsFinite(a) /\ IsFinite(b)
         THEN (IF b.n = 0
               THEN (IF a.n = 0 THEN NaN ELSE Inf(Sign(a.n)))
               ELSE Mul(a, Rat(b.d, b.n)))
    ELSE IF ~IsFinite(a) /\ ~IsFinite(b) THEN NaN
    ELSE IF IsFinite(a) THEN Zero
    ELSE Inf(a.n * (IF b.n < 0 THEN -1 ELSE 1))

\* a < b, a <= b and a == b of f64: false as soon as one side is NaN.
Lt(a, b) ==
    /\ ~IsNaN(a) /\ ~IsNaN(b)
    /\ IF IsFinite(a) /\ IsFinite(b)
       THEN LET g == GCD(a.d, b.d)
            IN  a.n * (b.d \div g) < b.n * (a.d \div g)
       ELSE IF ~IsFinite(a) /\ ~IsFinite(b) THEN a.n < b.n
       ELSE IF IsFinite(a) THEN b.n > 0 ELSE a.n < 0

FEq(a, b) == ~IsNaN(a) /\ ~IsNaN(b) /\ a = b

Le(a, b) == Lt(a, b) \/ FEq(a, b)

\* usize as f64
F(i) == [n |-> i, d |-> 1]

\* 10000 / log2(i + 2) for i = 0..11, rounded down.
DiscountTable ==
    <<10000, 6309, 5000, 4306, 3868, 3562, 3333, 3154, 3010, 2890, 2789, 2702>>

\* 1.0 / (i as f64 + 2.0).log2()
Discount(i) == Rat(DiscountTable[i + 1], DiscountTable[1])

----------------------------------------------------------------------------
(* src/binary.rs                                                           *)

\* ranked.iter().take(k): the positions (1-based) the iteration visits
Take(r, kk) == 1..Min(kk, Len(r))

\* .filter(|id| relevant.contains(id)).count()
Hits(r, rel, kk) == Cardinality({i \in Take(r, kk) : r[i] \in rel})

\* precision_at_k without .take(k): every hit of the list is counted
precision_no_take(r, rel, kk) ==
    IF kk = 0 THEN Zero
    ELSE Div(F(Hits(r, rel, Len(r))), F(kk))

\* precision_at_k with .take(k + 1): one position too many is counted
precision_take_one_more(r, rel, kk) ==
    IF kk = 0 THEN Zero
    ELSE Div(F(Hits(r, rel, kk + 1)), F(kk))

precision_at_k(r, rel, kk) ==
    IF kk = 0 THEN Zero
    ELSE Div(F(Hits(r, rel, kk)), F(kk))

\* recall_at_k dividing by k, as precision does, instead of relevant.len()
recall_over_k(r, rel, kk) ==
    IF rel = {} THEN Zero
    ELSE Div(F(Hits(r, rel, kk)), F(kk))

recall_at_k(r, rel, kk) ==
    IF rel = {} THEN Zero
    ELSE Div(F(Hits(r, rel, kk)), F(Cardinality(rel)))

\* mrr with the rank off by one: 1 / (i + 2) for the 0-based position i
mrr_off_by_one(r, rel) ==
    IF \E i \in 1..Len(r) : r[i] \in rel
    THEN LET first == CHOOSE i \in 1..Len(r) :
                        /\ r[i] \in rel
                        /\ \A j \in 1..(i - 1) : r[j] \notin rel
         IN  Div(One, F(first + 1))
    ELSE Zero

mrr(r, rel) ==
    IF \E i \in 1..Len(r) : r[i] \in rel
    THEN LET first == CHOOSE i \in 1..Len(r) :
                        /\ r[i] \in rel
                        /\ \A j \in 1..(i - 1) : r[j] \notin rel
         IN  Div(One, F(first))
    ELSE Zero

\* the sum of 1/log2(i+2) over the relevant positions i (0-based) among the
\* first n, added in increasing order of i
RECURSIVE DcgSum(_, _, _)
DcgSum(r, rel, n) ==
    IF n = 0 THEN Zero
    ELSE IF r[n] \in rel
         THEN Add(DcgSum(r, rel, n - 1), Discount(n - 1))
         ELSE DcgSum(r, rel, n - 1)

dcg_at_k(r, rel, kk) == DcgSum(r, rel, Min(kk, Len(r)))

RECURSIVE IdcgSum(_)
IdcgSum(n) == IF n = 0 THEN Zero ELSE Add(IdcgSum(n - 1), Discount(n - 1))

idcg_at_k(n_rel, kk) == IdcgSum(Min(kk, n_rel))

\* ndcg_at_k without the ideal == 0.0 early return
ndcg_unguarded(r, rel, kk) ==
    Div(dcg_at_k(r, rel, kk), idcg_at_k(Cardinality(rel), kk))

ndcg_at_k(r, rel, kk) ==
    LET ideal == idcg_at_k(Cardinality(rel), kk)
    IN  IF FEq(ideal, Zero) THEN Zero
        ELSE Div(dcg_at_k(r, rel, kk), ideal)

\* the loop of average_precision after n positions: <<sum, hits>>
RECURSIVE ApLoop(_, _, _)
ApLoop(r, rel, n) ==
    IF n = 0 THEN <<Zero, 0>>
    ELSE LET prev == ApLoop(r, rel, n - 1)
         IN  IF r[n] \in rel
             THEN <<Add(prev[1], Div(F(prev[2] + 1), F(n))), prev[2] + 1>>
             ELSE prev

average_precision(r, rel) ==
    IF rel = {} THEN Zero
    ELSE Div(ApLoop(r, rel, Len(r))[1], F(Cardinality(rel)))

\* the loop of err_at_k without `p_stop *= 1.0 - r`: every relevant document
\* of the top k adds its reciprocal rank
RECURSIVE ErrLoopNeverStopping(_, _, _)
ErrLoopNeverStopping(r, rel, n) ==
    IF n = 0 THEN <<Zero, One>>
    ELSE LET prev == ErrLoopNeverStopping(r, rel, n - 1)
         IN  IF r[n] \in rel
             THEN <<Add(prev[1], Div(Mul(prev[2], One), F(n))), prev[2]>>
             ELSE prev

\* the loop of err_at_k after n positions: <<err, p_stop>>
RECURSIVE ErrLoop(_, _, _)
ErrLoop(r, rel, n) ==
    IF n = 0 THEN <<Zero, One>>
    ELSE LET prev == ErrLoop(r, rel, n - 1)
         IN  IF r[n] \in rel
             THEN <<Add(prev[1], Div(Mul(prev[2], One), F(n))),
                    Mul(prev[2], Sub(One, One))>>
             ELSE prev

err_at_k(r, rel, kk) ==
    IF rel = {} THEN Zero
    ELSE ErrLoop(r, rel, Min(kk, Len(r)))[1]

\* the loop of rbp_at_k after n positions: <<rbp, p_power>>
RECURSIVE RbpLoop(_, _, _, _)
RbpLoop(r, rel, p, n) ==
    IF n = 0 THEN <<Zero, One>>
    ELSE LET prev == RbpLoop(r, rel, p, n - 1)
         IN  <<IF r[n] \in rel THEN Add(prev[1], prev[2]) ELSE prev[1],
               Mul(prev[2], p)>>

rbp_at_k(r, rel, kk, persistence) ==
    IF Le(persistence, Zero) \/ Le(One, persistence) THEN Zero
    ELSE Mul(Sub(One, persistence),
             RbpLoop(r, rel, persistence, Min(kk, Len(r)))[1])

\* f_measure_at_k without the precision == 0.0 && recall == 0.0 return
f_measure_unguarded(r, rel, kk, beta) ==
    LET precision == precision_at_k(r, rel, kk)
        recall == recall_at_k(r, rel, kk)
        beta_sq == Mul(beta, beta)
    IN  Div(Mul(Add(One, beta_sq), Mul(precision, recall)),
            Add(Mul(beta_sq, precision), recall))

f_measure_at_k(r, rel, kk, beta) ==
    LET precision == precision_at_k(r, rel, kk)
        recall == recall_at_k(r, rel, kk)
        beta_sq == Mul(beta, beta)
    IN  IF FEq(precision, Zero) /\ FEq(recall, Zero) THEN Zero
        ELSE Div(Mul(Add(One, beta_sq), Mul(precision, recall)),
                 Add(Mul(beta_sq, precision), recall))

success_at_k(r, rel, kk) ==
    IF \E i \in Take(r, kk) : r[i] \in rel THEN One ELSE Zero

r_precision(r, rel) ==
    IF rel = {} THEN Zero
    ELSE precision_at_k(r, rel, Cardinality(rel))

----------------------------------------------------------------------------
(* src/trec.rs: grouping.  A TrecRun is [query_id, doc_id, rank, score,    *)
(* run_tag], a Qrel is [query_id, doc_id, relevance].  A score is a finite  *)
(* f32 in sign-magnitude form, [neg, mag] with mag a whole number: +0.0 is  *)
(* [FALSE, 0] and -0.0 is [TRUE, 0].  A HashMap is a function on its key    *)
(* set.                                                                     *)

Front(s) == SubSeq(s, 1, Len(s) - 1)

F32(neg, mag) == [neg |-> neg, mag |-> mag]

\* the number an f32 stands for: the two zeros are the same number
F32Value(x) == IF x.neg THEN -x.mag ELSE x.mag

\* the place of an f32 in the order of f32::total_cmp: the sign bit first, so
\* -0.0 is below +0.0
F32TotalKey(x) == IF x.neg THEN -x.mag - 1 ELSE x.mag

\* a.total_cmp(&b) is not Ordering::Less
TotalCmpGe(a, b) == F32TotalKey(a) >= F32TotalKey(b)

\* the sort of group_runs_by_query made unstable: an entry goes before the
\* entries of its own score
RECURSIVE SortByScoreDescUnstable(_)
SortByScoreDescUnstable(s) ==
    IF s = <<>> THEN <<>>
    ELSE LET sorted == SortByScoreDescUnstable(Front(s))
             x == s[Len(s)]
             n == Cardinality({i \in 1..Len(sorted) :
                                  F32TotalKey(sorted[i][2]) > F32TotalKey(x[2])})
         IN  SubSeq(sorted, 1, n) \o <<x>> \o SubSeq(sorted, n + 1, Len(sorted))

\* Vec::sort_by(|a, b| b.1.total_cmp(&a.1)) on (doc_id, score) pairs: a stable
\* sort, descending in the order of total_cmp
RECURSIVE SortByScoreDesc(_)
SortByScoreDesc(s) ==
    IF s = <<>> THEN <<>>
    ELSE LET sorted == SortByScoreDesc(Front(s))
             x == s[Len(s)]
             \* x goes behind every entry whose score is not below its own
             n == Cardinality({i \in 1..Len(sorted) : TotalCmpGe(sorted[i][2], x[2])})
         IN  SubSeq(sorted, 1, n) \o <<x>> \o SubSeq(sorted, n + 1, Len(sorted))

\* the (doc_id, score) pairs pushed for one query and run tag, in input order
RECURSIVE Pushed(_, _, _)
Pushed(rs, q, t) ==
    IF rs = <<>> THEN <<>>
    ELSE LET r == rs[Len(rs)]
         IN  IF r.query_id = q /\ r.run_tag = t
             THEN Append(Pushed(Front(rs), q, t), <<r.doc_id, r.score>>)
             ELSE Pushed(Front(rs), q, t)

group_runs_by_query(rs) ==
    [q \in {rs[i].query_id : i \in 1..Len(rs)} |->
        [t \in {rs[i].run_tag : i \in {j \in 1..Len(rs) : rs[j].query_id = q}} |->
            SortByScoreDesc(Pushed(rs, q, t))]]

\* HashMap::insert
Insert(map, key, v) ==
    [x \in DOMAIN map \cup {key} |-> IF x = key THEN v ELSE map[x]]

\* the loop of group_qrels_by_query with entry(doc_id).or_insert(relevance) in
\* the place of insert: the first record of a pair wins
RECURSIVE GroupQrelsLoopFirstWins(_, _)
GroupQrelsLoopFirstWins(qs, n) ==
    IF n = 0 THEN <<>>
    ELSE LET prev == GroupQrelsLoopFirstWins(qs, n - 1)
             qrel == qs[n]
             inner == IF qrel.query_id \in DOMAIN prev
                      THEN prev[qrel.query_id] ELSE <<>>
         IN  IF qrel.doc_id \in DOMAIN inner THEN prev
             ELSE Insert(prev, qrel.query_id,
                         Insert(inner, qrel.doc_id, qrel.relevance))

\* `for qrel in qrels { grouped.entry(query_id).or_default().insert(doc_id,
\* relevance) }` after the first n records
RECURSIVE GroupQrelsLoop(_, _)
GroupQrelsLoop(qs, n) ==
    IF n = 0 THEN <<>>
    ELSE LET prev == GroupQrelsLoop(qs, n - 1)
             qrel == qs[n]
             inner == IF qrel.query_id \in DOMAIN prev
                      THEN prev[qrel.query_id] ELSE <<>>
         IN  Insert(prev, qrel.query_id,
                    Insert(inner, qrel.doc_id, qrel.relevance))

group_qrels_by_query(qs) == GroupQrelsLoop(qs, Len(qs))

----------------------------------------------------------------------------
(* src/batch.rs                                                            *)

\* the names of the dispatch table
MetricNames ==
    {"ndcg@10", "ndcg@5", "precision@10", "precision@5", "precision@1",
     "recall@10", "recall@5", "mrr", "ap", "map", "err@10", "rbp@10", "f1@10",
     "success@10", "r_precision"}

\* the match on the metric name; the arm `_` is IsKnown(name) = FALSE
IsKnown(name) == name \in MetricNames

Dispatch(name, r, rel) ==
    CASE name = "ndcg@10" -> ndcg_at_k(r, rel, 10)
      [] name = "ndcg@5" -> ndcg_at_k(r, rel, 5)
      [] name = "precision@10" -> precision_at_k(r, rel, 10)
      [] name = "precision@5" -> precision_at_k(r, rel, 5)
      [] name = "precision@1" -> precision_at_k(r, rel, 1)
      [] name = "recall@10" -> recall_at_k(r, rel, 10)
      [] name = "recall@5" -> recall_at_k(r, rel, 5)
      [] name = "mrr" -> mrr(r, rel)
      [] name \in {"ap", "map"} -> average_precision(r, rel)
      [] name = "err@10" -> err_at_k(r, rel, 10)
      [] name = "rbp@10" -> rbp_at_k(r, rel, 10, Rat(19, 20))
      [] name = "f1@10" -> f_measure_at_k(r, rel, 10, One)
      [] name = "success@10" -> success_at_k(r, rel, 10)
      [] name = "r_precision" -> r_precision(r, rel)

\* *metric_sums.entry(name).or_insert(0.0) += value
AddSum(sums, name, value) ==
    Insert(sums, name, Add(IF name \in DOMAIN sums THEN sums[name] ELSE Zero, value))

\* or_insert(1) in the place of or_insert(0): the first value counts twice
AddCountFromOne(counts, name) ==
    Insert(counts, name, (IF name \in DOMAIN counts THEN counts[name] ELSE 1) + 1)

\* *metric_counts.entry(name).or_insert(0) += 1
AddCount(counts, name) ==
    Insert(counts, name, (IF name \in DOMAIN counts THEN counts[name] ELSE 0) + 1)

EmptyMap == [x \in {} |-> Zero]

\* the accumulators of a batch: the query's own map, and the sums and counts
\* shared by all queries
Acc(qm, sums, counts) == [query_metrics |-> qm, sums |-> sums, counts |-> counts]

\* the metric loop with `break` in the place of `continue`: the first unknown
\* name ends the loop
RECURSIVE MetricLoopBreaking(_, _, _, _, _)
MetricLoopBreaking(ms, n, r, rel, acc) ==
    IF n = 0 THEN acc
    ELSE LET prev == MetricLoopBreaking(ms, n - 1, r, rel, acc)
             name == ms[n]
         IN  IF \E i \in 1..n : ~IsKnown(ms[i]) THEN prev
             ELSE LET value == Dispatch(name, r, rel)
                  IN  Acc(Insert(prev.query_metrics, name, value),
                          AddSum(prev.sums, name, value),
                          AddCount(prev.counts, name))

\* `for metric_name in metrics { ... }` after its first n names, for one query
RECURSIVE MetricLoop(_, _, _, _, _)
MetricLoop(ms, n, r, rel, acc) ==
    IF n = 0 THEN acc
    ELSE LET prev == MetricLoop(ms, n - 1, r, rel, acc)
             name == ms[n]
         IN  IF ~IsKnown(name) THEN prev
             ELSE LET value == Dispatch(name, r, rel)
                  IN  Acc(Insert(prev.query_metrics, name, value),
                          AddSum(prev.sums, name, value),
                          AddCount(prev.counts, name))

\* the query loop after its first n queries; each query is [query_id, ranked,
\* relevant]: <<query_results, metric_sums, metric_counts>>
RECURSIVE QueryLoop(_, _, _)
QueryLoop(queries, n, ms) ==
    IF n = 0 THEN <<<<>>, EmptyMap, EmptyMap>>
    ELSE LET prev == QueryLoop(queries, n - 1, ms)
             q == queries[n]
             acc == MetricLoop(ms, Len(ms), q.ranked, q.relevant,
                               Acc(EmptyMap, prev[2], prev[3]))
         IN  <<Append(prev[1], [query_id |-> q.query_id,
                                metrics |-> acc.query_metrics]),
               acc.sums, acc.counts>>

\* "Compute aggregated means"
Aggregated(sums, counts) ==
    [name \in DOMAIN sums |->
        Div(sums[name], F(IF name \in DOMAIN counts THEN counts[name] ELSE 1))]

BatchResults(called, queries, ms) ==
    LET done == QueryLoop(queries, Len(queries), ms)
    IN  [called |-> called,
         panicked |-> FALSE,
         query_results |-> done[1],
         aggregated |-> Aggregated(done[2], done[3])]

\* assert_eq!(rankings.len(), qrels.len(), ...) failed: no BatchResults
Panicked(called) ==
    [called |-> called, panicked |-> TRUE,
     query_results |-> <<>>, aggregated |-> EmptyMap]

\* the names counted from 1
QueryNameFromOne(i) == <<"query", i + 1>>

\* format!("query_{}", _i)
QueryName(i) == <<"query", i>>

evaluate_batch_binary(rs, rels, ms) ==
    IF Len(rs) # Len(rels) THEN Panicked("evaluate_batch_binary")
    ELSE BatchResults("evaluate_batch_binary",
                      [i \in 1..Len(rs) |->
                          [query_id |-> QueryName(i - 1),
                           ranked |-> rs[i],
                           relevant |-> rels[i]]],
                      ms)

Range(s) == {s[i] : i \in 1..Len(s)}

RECURSIVE Perms(_)
Perms(S) ==
    IF S = {} THEN {<<>>}
    ELSE UNION {{Append(p, x) : p \in Perms(S \ {x})} : x \in S}

\* iterating the raw qrel records in the place of the grouped map
RecordOrders(qs, qrels_by_query) ==
    {[i \in 1..Len(qs) |-> qs[i].query_id]}

\* `for (query_id, query_qrels) in &qrels_by_query`: a HashMap iterates its
\* keys in an order the program does not control (the hasher is seeded at
\* random), each key once
IterationOrders(qs, qrels_by_query) == Perms(DOMAIN qrels_by_query)

\* query_runs.keys().next(): the key the HashMap happens to iterate first
FirstKeys(query_runs) == DOMAIN query_runs

\* ranked.sort_by(|a, b| b.1.partial_cmp(&a.1).unwrap()) and the ids of it
RankedIds(ranked_run) ==
    LET sorted == SortByScoreDesc(ranked_run)
    IN  [i \in 1..Len(sorted) |-> sorted[i][1]]

\* every judged document taken as relevant
RelevantOfAnyJudged(query_qrels) == DOMAIN query_qrels

\* query_qrels.iter().filter(|(_, &rel)| rel > 0).map(|(id, _)| id).collect()
RelevantOf(query_qrels) == {d \in DOMAIN query_qrels : query_qrels[d] > 0}

\* evaluate_trec_batch, given the order in which qrels_by_query is iterated
\* and, per query, the key that keys().next() yields
evaluate_trec_batch(rs, qs, ms, order, first_run_tag) ==
    LET runs_by_query == group_runs_by_query(rs)
        qrels_by_query == group_qrels_by_query(qs)
        run_queries == DOMAIN runs_by_query
        \* `None => continue`
        visited == SelectSeq(order, LAMBDA q : q \in run_queries)
    IN  BatchResults("evaluate_trec_batch",
                     [i \in 1..Len(visited) |->
                         [query_id |-> visited[i],
                          ranked |-> RankedIds(
                              runs_by_query[visited[i]][first_run_tag[visited[i]]]),
                          relevant |-> RelevantOf(qrels_by_query[visited[i]])]],
                     ms)

----------------------------------------------------------------------------
(* src/validation.rs.  A Result<(), ValidationError> is [called, kind]     *)
(* with kind "Ok" or the name of the error variant; InvalidPersistence     *)
(* carries the persistence it refused.                                     *)

ValidationOk(called) == [called |-> called, kind |-> "Ok"]

ValidationErr(called, kind) == [called |-> called, kind |-> kind]

\* validate_metric_inputs testing the ranked list before k
validate_metric_inputs_ranked_first(r, rel, kk, require) ==
    IF r = <<>> THEN ValidationErr("validate_metric_inputs", "EmptyRanked")
    ELSE IF kk = 0 THEN ValidationErr("validate_metric_inputs", "KZero")
    ELSE IF require /\ rel = {}
    THEN ValidationErr("validate_metric_inputs", "NoRelevant")
    ELSE ValidationOk("validate_metric_inputs")

validate_metric_inputs(r, rel, kk, require) ==
    IF kk = 0 THEN ValidationErr("validate_metric_inputs", "KZero")
    ELSE IF r = <<>> THEN ValidationErr("validate_metric_inputs", "EmptyRanked")
    ELSE IF require /\ rel = {}
    THEN ValidationErr("validate_metric_inputs", "NoRelevant")
    ELSE ValidationOk("validate_metric_inputs")

\* validate_persistence with < and > in the place of <= and >=
validate_persistence_strict(persistence) ==
    IF Lt(persistence, Zero) \/ Lt(One, persistence)
    THEN [called |-> "validate_persistence", kind |-> "InvalidPersistence",
          persistence |-> persistence]
    ELSE ValidationOk("validate_persistence")

validate_persistence(persistence) ==
    IF Le(persistence, Zero) \/ Le(One, persistence)
    THEN [called |-> "validate_persistence", kind |-> "InvalidPersistence",
          persistence |-> persistence]
    ELSE ValidationOk("validate_persistence")

----------------------------------------------------------------------------
(* Calls of the binary metrics on a fixed (ranked, relevant) pair.         *)

RECURSIVE SeqsUpTo(_, _)
SeqsUpTo(S, n) ==
    IF n = 0 THEN {<<>>}
    ELSE LET shorter == SeqsUpTo(S, n - 1)
         IN  shorter \cup {Append(s, x) : s \in shorter, x \in S}

\* the persistence values the calls draw from: two valid ones, the two
\* boundaries, one below, one above, and NaN
Persistences == {Rat(1, 2), Rat(19, 20), Zero, One, Rat(-1, 2), Rat(3, 2), NaN}

\* the beta values the calls draw from
Betas == {One, Zero, Rat(2, 1), Rat(1, 2), Rat(-1, 1), NaN}

NoResults ==
    [called |-> "none", panicked |-> FALSE,
     query_results |-> <<>>, aggregated |-> EmptyMap]

\* before any load_* call: no Result
NoParse ==
    [called |-> "none", ok |-> FALSE, records |-> <<>>,
     kind |-> "none", line_num |-> 0, content |-> <<>>]

\* before any validate_* call
NotValidated == [called |-> "none", kind |-> "none"]

ValidationIdle ==
    /\ require_relevant = FALSE
    /\ validated = NotValidated

\* before any statistics call
NoStat == [called |-> "none", panicked |-> FALSE]

StatIdle ==
    /\ method_a = <<>>
    /\ method_b = <<>>
    /\ alpha = Zero
    /\ stat_result = NoStat

TrecIdle ==
    /\ grouped = <<>>
    /\ file = <<>>
    /\ parsed = NoParse
    /\ graded_qrels = <<>>

BatchIdle ==
    /\ runs = <<>>
    /\ qrels = <<>>
    /\ rankings = <<>>
    /\ rel_sets = <<>>
    /\ metrics = <<>>
    /\ picked = <<>>
    /\ results = NoResults

Init ==
    /\ ValidationIdle
    /\ StatIdle
    /\ ranked \in SeqsUpTo(Docs, MaxLen)
    /\ relevant \in SUBSET Docs
    /\ k = 0
    /\ param = Zero
    /\ n_relevant = 0
    /\ op = "none"
    /\ out = Zero
    /\ BatchIdle
    /\ TrecIdle

\* one call per behaviour: the harness calls a metric on its fixture and records
\* the arguments and the value returned
Returned(name, kk, p, n, value) ==
    /\ op = "none"
    /\ results.called = "none"
    /\ op' = name
    /\ k' = kk
    /\ param' = p
    /\ n_relevant' = n
    /\ out' = value
    /\ UNCHANGED <<ranked, relevant>>
    /\ UNCHANGED batchvars
    /\ UNCHANGED trecvars
    /\ UNCHANGED valvars
    /\ UNCHANGED statvars

CallPrecision ==
    \E kk \in 0..MaxK :
        Returned("precision_at_k", kk, Zero, 0, precision_at_k(ranked, relevant, kk))

CallRecall ==
    \E kk \in 0..MaxK :
        Returned("recall_at_k", kk, Zero, 0, recall_at_k(ranked, relevant, kk))

CallMrr == Returned("mrr", 0, Zero, 0, mrr(ranked, relevant))

CallDcg ==
    \E kk \in 0..MaxK :
        Returned("dcg_at_k", kk, Zero, 0, dcg_at_k(ranked, relevant, kk))

CallIdcg ==
    \E kk \in 0..MaxK, n \in 0..MaxLen :
        Returned("idcg_at_k", kk, Zero, n, idcg_at_k(n, kk))

CallNdcg ==
    \E kk \in 0..MaxK :
        Returned("ndcg_at_k", kk, Zero, 0, ndcg_at_k(ranked, relevant, kk))

CallAveragePrecision ==
    Returned("average_precision", 0, Zero, 0, average_precision(ranked, relevant))

CallErr ==
    \E kk \in 0..MaxK :
        Returned("err_at_k", kk, Zero, 0, err_at_k(ranked, relevant, kk))

CallRbp ==
    \E kk \in 0..MaxK, p \in Persistences :
        Returned("rbp_at_k", kk, p, 0, rbp_at_k(ranked, relevant, kk, p))

CallFMeasure ==
    \E kk \in 0..MaxK, b \in Betas :
        Returned("f_measure_at_k", kk, b, 0, f_measure_at_k(ranked, relevant, kk, b))

CallSuccess ==
    \E kk \in 0..MaxK :
        Returned("success_at_k", kk, Zero, 0, success_at_k(ranked, relevant, kk))

CallRPrecision == Returned("r_precision", 0, Zero, 0, r_precision(ranked, relevant))

\* a validate_* call on the fixture: the arguments and the Result
Validated(name, kk, p, require, result) ==
    /\ op = "none"
    /\ results.called = "none"
    /\ op' = name
    /\ k' = kk
    /\ param' = p
    /\ require_relevant' = require
    /\ validated' = result
    /\ UNCHANGED <<ranked, relevant, n_relevant, out>>
    /\ UNCHANGED batchvars
    /\ UNCHANGED trecvars
    /\ UNCHANGED statvars

CallValidateMetricInputs ==
    \E kk \in 0..MaxK, require \in BOOLEAN :
        Validated("validate_metric_inputs", kk, Zero, require,
                  validate_metric_inputs(ranked, relevant, kk, require))

CallValidatePersistence ==
    \E p \in Persistences :
        Validated("validate_persistence", 0, p, FALSE, validate_persistence(p))

Next ==
    \/ CallValidateMetricInputs
    \/ CallValidatePersistence
    \/ CallPrecision
    \/ CallRecall
    \/ CallMrr
    \/ CallDcg
    \/ CallIdcg
    \/ CallNdcg
    \/ CallAveragePrecision
    \/ CallErr
    \/ CallRbp
    \/ CallFMeasure
    \/ CallSuccess
    \/ CallRPrecision

Spec == Init /\ [][Next]_vars

----------------------------------------------------------------------------
(* Calls of the batch evaluators.                                          *)

MaxRuns == 2        \* most TrecRun records of a call
MaxQrels == 2       \* most Qrel records of a call
MaxQueries == 2     \* most rankings, and most relevant sets, of evaluate_batch_binary

Queries == {"q1", "q2"}
BatchDocs == {"d1", "d2"}
Tags == {"tA", "tB"}
\* every record of a batch call has the same score, so the stable sorts keep the
\* input order: the rankings vary with the order of the records
Scores == {F32(FALSE, 1)}
\* the documents the qrels judge, and the grades they give
JudgedDocs == {"d1"}
Grades == {0, 1}

\* q1 is submitted under both run tags, q2 under the first one
RunRecords ==
    {r \in [query_id : Queries, doc_id : BatchDocs, rank : {1}, score : Scores,
            run_tag : Tags] :
        r.query_id = "q2" => r.run_tag = "tA"}

QrelRecords == [query_id : Queries, doc_id : JudgedDocs, relevance : Grades]

\* the rankings of evaluate_batch_binary
Rankings == {<<>>, <<"d1">>, <<"d1", "d2">>, <<"d2", "d1">>}

\* the metric lists requested: none, only an unknown name, a name twice around
\* another, an unknown name between two known ones
MetricLists ==
    {<<>>,
     <<"nope">>,
     <<"mrr", "recall@5", "mrr">>,
     <<"ndcg@10", "nope", "precision@1">>}

BinaryIdle ==
    /\ ranked = <<>>
    /\ relevant = {}
    /\ k = 0
    /\ param = Zero
    /\ n_relevant = 0
    /\ op = "none"
    /\ out = Zero

InitBatch ==
    /\ ValidationIdle
    /\ StatIdle
    /\ BinaryIdle
    /\ TrecIdle
    /\ metrics \in MetricLists
    /\ picked = <<>>
    /\ results = NoResults
    /\ \/ /\ runs \in SeqsUpTo(RunRecords, MaxRuns)
          /\ qrels \in SeqsUpTo(QrelRecords, MaxQrels)
          /\ rankings = <<>>
          /\ rel_sets = <<>>
       \/ /\ runs = <<>>
          /\ qrels = <<>>
          /\ rankings \in SeqsUpTo(Rankings, MaxQueries)
          /\ rel_sets \in SeqsUpTo(SUBSET BatchDocs, MaxQueries)

\* the harness calls evaluate_batch_binary on its rankings and relevant sets
EvaluateBatchBinary ==
    /\ op = "none"
    /\ results.called = "none"
    /\ runs = <<>> /\ qrels = <<>>
    /\ results' = evaluate_batch_binary(rankings, rel_sets, metrics)
    /\ UNCHANGED <<runs, qrels, rankings, rel_sets, metrics, picked>>
    /\ UNCHANGED binvars
    /\ UNCHANGED trecvars
    /\ UNCHANGED valvars
    /\ UNCHANGED statvars

\* the harness calls evaluate_trec_batch on its run and qrel records
EvaluateTrecBatch ==
    /\ op = "none"
    /\ results.called = "none"
    /\ rankings = <<>> /\ rel_sets = <<>>
    /\ LET runs_by_query == group_runs_by_query(runs)
           run_queries == DOMAIN runs_by_query
       IN  \E order \in IterationOrders(qrels, group_qrels_by_query(qrels)),
              first_run_tag \in [run_queries -> Tags] :
              /\ \A q \in run_queries :
                    first_run_tag[q] \in FirstKeys(runs_by_query[q])
              /\ picked' = first_run_tag
              /\ results' = evaluate_trec_batch(runs, qrels, metrics, order,
                                                first_run_tag)
    /\ UNCHANGED <<runs, qrels, rankings, rel_sets, metrics>>
    /\ UNCHANGED binvars
    /\ UNCHANGED trecvars
    /\ UNCHANGED valvars
    /\ UNCHANGED statvars

NextBatch ==
    \/ EvaluateBatchBinary
    \/ EvaluateTrecBatch

SpecBatch == InitBatch /\ [][NextBatch]_vars

----------------------------------------------------------------------------
(* Properties of the binary metrics (checked under Spec).                  *)

NoDup(s) == \A i, j \in 1..Len(s) : s[i] = s[j] => i = j

InUnit(v) == Le(Zero, v) /\ Le(v, One)

UnitOps ==
    {"precision_at_k", "recall_at_k", "mrr", "ndcg_at_k", "average_precision",
     "err_at_k", "success_at_k", "r_precision"}

\* relevant is exactly the set of ids of a non-empty ranked list of distinct ids
Perfect == ranked # <<>> /\ NoDup(ranked) /\ relevant = Range(ranked)

\* C1: on a ranked list of distinct ids every binary metric returns a value in
\* [0,1], for every relevant set and every cutoff (also beyond the end of the
\* list): rbp_at_k for a persistence in (0,1), f_measure_at_k for beta = 1; and
\* DCG@k never exceeds IDCG@k(|relevant|, k).
C1_MetricsBounded ==
    (op # "none" /\ NoDup(ranked)) =>
        /\ op \in UnitOps => InUnit(out)
        /\ (op = "rbp_at_k" /\ Lt(Zero, param) /\ Lt(param, One)) => InUnit(out)
        /\ (op = "f_measure_at_k" /\ param = One) => InUnit(out)
        /\ op = "dcg_at_k" => Le(out, idcg_at_k(Cardinality(relevant), k))

C1_Witness ==
    /\ op = "ndcg_at_k"
    /\ NoDup(ranked)
    /\ k > Len(ranked)
    /\ Lt(Zero, out)
    /\ Lt(out, One)

NoHitBetween(k1, k2) ==
    \A i \in (k1 + 1)..Min(k2, Len(ranked)) : ranked[i] \notin relevant

C4_RecallNonDecreasing ==
    op = "recall_at_k" =>
        \A k2 \in k..MaxK : Le(out, recall_at_k(ranked, relevant, k2))

C4_Witness ==
    /\ op = "recall_at_k"
    /\ \E k2 \in (k + 1)..MaxK : Lt(out, recall_at_k(ranked, relevant, k2))

\* C5: with an empty ranked list or an empty relevant set every binary metric
\* returns exactly 0.0, for every k and every parameter value.
C5_EmptyInputsGiveZero ==
    (op \notin {"none", "idcg_at_k"} /\ (ranked = <<>> \/ relevant = {}))
        => FEq(out, Zero)

\* C6: idcg_at_k(n_relevant, k) is 0.0 exactly when min(k, n_relevant) = 0, and
\* ndcg_at_k never divides by a zero ideal: its value is finite, and 0.0
\* whenever relevant is empty or k = 0.
C6_ZeroIdealGuarded ==
    /\ op = "idcg_at_k" => (FEq(out, Zero) <=> Min(k, n_relevant) = 0)
    /\ op = "ndcg_at_k" =>
          /\ IsFinite(out)
          /\ (relevant = {} \/ k = 0) => FEq(out, Zero)

C6_Witness ==
    /\ op = "ndcg_at_k"
    /\ k = 0
    /\ relevant # {}
    /\ ranked # <<>>
    /\ \E i \in 1..Len(ranked) : ranked[i] \in relevant
    /\ out = Zero

----------------------------------------------------------------------------
(* Properties of the batch evaluators (checked under SpecBatch).           *)

QueriesOf(recs) == {recs[i].query_id : i \in 1..Len(recs)}

\* the run tag of the first record of rs for query q
FirstTagInInput(rs, q) ==
    rs[CHOOSE i \in 1..Len(rs) :
          /\ rs[i].query_id = q
          /\ \A j \in 1..(i - 1) : rs[j].query_id # q].run_tag

\* the value of metric name on the list of run tag t for query q
ValueOnTag(name, q, t) ==
    Dispatch(name,
             RankedIds(group_runs_by_query(runs)[q][t]),
             RelevantOf(group_qrels_by_query(qrels)[q]))

CalledTrec == results.called = "evaluate_trec_batch"

BatchReturned == results.called # "none" /\ ~results.panicked

\* C7: for each query evaluate_trec_batch scores the list of the run tag met
\* first for that query in runs, and no other tag's list.
C7_FirstTagInInputIsScored ==
    CalledTrec =>
        \A i \in 1..Len(results.query_results) :
            LET qr == results.query_results[i]
            IN  \A name \in DOMAIN qr.metrics :
                    qr.metrics[name]
                        = ValueOnTag(name, qr.query_id,
                                     FirstTagInInput(runs, qr.query_id))

\* the sum of metric name over the first n QueryResults
RECURSIVE SumOver(_, _, _)
SumOver(qrs, name, n) ==
    IF n = 0 THEN Zero
    ELSE Add(SumOver(qrs, name, n - 1), qrs[n].metrics[name])

KnownRequested == {name \in Range(metrics) : IsKnown(name)}

\* C8: aggregated[m] is the sum of metrics[m] over the returned QueryResults
\* divided by their number, for every recognized requested m (also one listed
\* twice), and aggregated has no other entry; it is empty when no query is
\* returned.
C8_AggregatedIsMean ==
    BatchReturned =>
        LET qrs == results.query_results
        IN  /\ DOMAIN results.aggregated
                 = (IF qrs = <<>> THEN {} ELSE KnownRequested)
            /\ \A name \in DOMAIN results.aggregated :
                  results.aggregated[name]
                      = Div(SumOver(qrs, name, Len(qrs)), F(Len(qrs)))

C8_Witness ==
    /\ BatchReturned
    /\ Len(results.query_results) = 2
    /\ \E i, j \in 1..Len(metrics) : i # j /\ metrics[i] = metrics[j]
    /\ \E name \in DOMAIN results.aggregated :
          /\ results.query_results[1].metrics[name]
                # results.query_results[2].metrics[name]
          /\ Lt(Zero, results.aggregated[name])
          /\ Lt(results.aggregated[name], One)

\* the ranked list and the relevant set the i-th returned query was scored on
ScoredRanked(i) ==
    IF CalledTrec
    THEN LET q == results.query_results[i].query_id
         IN  RankedIds(group_runs_by_query(runs)[q][picked[q]])
    ELSE rankings[i]

ScoredRelevant(i) ==
    IF CalledTrec
    THEN RelevantOf(group_qrels_by_query(qrels)[results.query_results[i].query_id])
    ELSE rel_sets[i]

\* C9: an unknown metric name is skipped: it is a key of no QueryResult and not
\* of aggregated, and every recognized name of the list, before and after it,
\* is computed for every query, so each key set is the set of recognized names
\* requested.
C9_UnknownMetricSkipped ==
    BatchReturned =>
        /\ \A i \in 1..Len(results.query_results) :
              LET qr == results.query_results[i]
              IN  /\ DOMAIN qr.metrics = KnownRequested
                  /\ \A name \in KnownRequested :
                        qr.metrics[name]
                            = Dispatch(name, ScoredRanked(i), ScoredRelevant(i))
        /\ DOMAIN results.aggregated \subseteq KnownRequested

C9_Witness ==
    /\ BatchReturned
    /\ results.query_results # <<>>
    /\ \E i, j, l \in 1..Len(metrics) :
          /\ i < j /\ j < l
          /\ IsKnown(metrics[i]) /\ ~IsKnown(metrics[j]) /\ IsKnown(metrics[l])
          /\ DOMAIN results.aggregated = {metrics[i], metrics[l]}
          /\ Lt(Zero, results.aggregated[metrics[l]])

\* C10: evaluate_trec_batch returns one QueryResult for each query that occurs
\* in qrels and in runs, and none for any other query: a query of qrels only,
\* or of runs only, is left out and adds nothing to a mean.
C10_OnlyQueriesInBoth ==
    CalledTrec =>
        LET qrs == results.query_results
            ids == [i \in 1..Len(qrs) |-> qrs[i].query_id]
        IN  /\ Range(ids) = QueriesOf(qrels) \cap QueriesOf(runs)
            /\ \A i, j \in 1..Len(ids) : ids[i] = ids[j] => i = j
            /\ \A name \in DOMAIN results.aggregated :
                  results.aggregated[name]
                      = Div(SumOver(qrs, name, Len(qrs)),
                            F(Cardinality(QueriesOf(qrels) \cap QueriesOf(runs))))

C10_Witness ==
    /\ CalledTrec
    /\ Len(results.query_results) = 1
    /\ QueriesOf(qrels) = Queries
    /\ QueriesOf(runs) # Queries
    /\ metrics # <<>>
    /\ DOMAIN results.aggregated # {}

----------------------------------------------------------------------------
(* ERR on binary relevance (checked under Spec).                           *)

\* the 1-based ranks of the relevant documents among the first kk of r
HitRanks(r, rel, kk) == {i \in 1..Min(kk, Len(r)) : r[i] \in rel}

\* C20: err_at_k(ranked, relevant, k) is 1/r when the first relevant document
\* of ranked is at 1-based rank r <= k, and 0.0 otherwise; it then equals
\* mrr(ranked, relevant), and later relevant documents add nothing.
C20_ErrIsReciprocalRank ==
    op = "err_at_k" =>
        LET hits == HitRanks(ranked, relevant, k)
        IN  IF hits = {} THEN out = Zero
            ELSE /\ out = Div(One, F(CHOOSE i \in hits : \A j \in hits : i <= j))
                 /\ out = mrr(ranked, relevant)

C20_Witness ==
    /\ op = "err_at_k"
    /\ Cardinality(HitRanks(ranked, relevant, k)) >= 2
    /\ 1 \notin HitRanks(ranked, relevant, k)
    /\ out = Rat(1, 2)

----------------------------------------------------------------------------
(* Calls of the grouping functions of src/trec.rs.                         *)

GroupTags == {"tA", "tB"}
GroupDocs == {"d1", "d2"}
Ranks == {1, 2}
\* -0.0, +0.0 and 1.0
GroupScores == {F32(TRUE, 0), F32(FALSE, 0), F32(FALSE, 1)}

\* q1 is submitted under both run tags, q2 under the first one
GroupRunRecords ==
    {r \in [query_id : Queries, doc_id : GroupDocs, rank : Ranks,
            score : GroupScores, run_tag : GroupTags] :
        r.query_id = "q2" => r.run_tag = "tA"}

GroupQrelRecords == [query_id : Queries, doc_id : GroupDocs, relevance : Grades]

InitGroup ==
    /\ ValidationIdle
    /\ StatIdle
    /\ BinaryIdle
    /\ file = <<>>
    /\ parsed = NoParse
    /\ graded_qrels = <<>>
    /\ grouped = <<>>
    /\ rankings = <<>>
    /\ rel_sets = <<>>
    /\ metrics = <<>>
    /\ picked = <<>>
    /\ results = NoResults
    /\ \/ runs \in SeqsUpTo(GroupRunRecords, MaxRuns) /\ qrels = <<>>
       \/ runs = <<>> /\ qrels \in SeqsUpTo(GroupQrelRecords, MaxQrels)

Grouped(name, map) ==
    /\ op = "none"
    /\ op' = name
    /\ grouped' = map
    /\ UNCHANGED <<ranked, relevant, k, param, n_relevant, out>>
    /\ UNCHANGED batchvars
    /\ UNCHANGED <<file, parsed, graded_qrels>>
    /\ UNCHANGED valvars
    /\ UNCHANGED statvars

GroupRuns ==
    /\ qrels = <<>>
    /\ Grouped("group_runs_by_query", group_runs_by_query(runs))

GroupQrels ==
    /\ runs = <<>>
    /\ Grouped("group_qrels_by_query", group_qrels_by_query(qrels))

NextGroup ==
    \/ GroupRuns
    \/ GroupQrels

SpecGroup == InitGroup /\ [][NextGroup]_vars

\* the positions in runs of the records of query q and run tag t, in input order
PositionsOf(q, t) ==
    SelectSeq([i \in 1..Len(runs) |-> i],
              LAMBDA i : runs[i].query_id = q /\ runs[i].run_tag = t)

\* list is the (doc_id, score) pairs of the records at positions pos, in the
\* order order (a permutation of the indices of pos)
IsArrangement(list, pos, order) ==
    /\ Len(list) = Len(pos)
    /\ \A i \in 1..Len(list) :
          list[i] = <<runs[pos[order[i]]].doc_id, runs[pos[order[i]]].score>>

KeysOfRuns ==
    /\ DOMAIN grouped = QueriesOf(runs)
    /\ \A q \in DOMAIN grouped :
          /\ DOMAIN grouped[q]
                = {runs[i].run_tag : i \in {j \in 1..Len(runs) : runs[j].query_id = q}}
          /\ \A t \in DOMAIN grouped[q] : grouped[q][t] # <<>>

\* C11: each list of group_runs_by_query is a permutation of the (doc_id,
\* score) pairs of the records of its query and tag, by non-increasing score,
\* records of equal score (equal as numbers) in input order.
C11_StableByScore ==
    op = "group_runs_by_query" =>
        /\ KeysOfRuns
        /\ \A q \in DOMAIN grouped : \A t \in DOMAIN grouped[q] :
              LET pos == PositionsOf(q, t)
              IN  \E order \in Perms(1..Len(pos)) :
                      /\ IsArrangement(grouped[q][t], pos, order)
                      /\ \A i, j \in 1..Len(pos) :
                            i < j =>
                              LET a == runs[pos[order[i]]].score
                                  b == runs[pos[order[j]]].score
                              IN  /\ F32Value(a) >= F32Value(b)
                                  /\ F32Value(a) = F32Value(b)
                                        => order[i] < order[j]

\* the records of runs with every rank field set to 1
WithoutRanks == [i \in 1..Len(runs) |-> [runs[i] EXCEPT !.rank = 1]]

\* C11 (amended): each list of group_runs_by_query is a permutation of the
\* (doc_id, score) pairs of the records of its query and tag, non-increasing
\* in the order of f32::total_cmp (+0.0 before -0.0), records of the same
\* score (the same bits) in input order; the rank fields do not matter.
C11_StableByTotalCmp ==
    op = "group_runs_by_query" =>
        /\ KeysOfRuns
        /\ grouped = group_runs_by_query(WithoutRanks)
        /\ \A q \in DOMAIN grouped : \A t \in DOMAIN grouped[q] :
              LET pos == PositionsOf(q, t)
              IN  \E order \in Perms(1..Len(pos)) :
                      /\ IsArrangement(grouped[q][t], pos, order)
                      /\ \A i, j \in 1..Len(pos) :
                            i < j =>
                              LET a == runs[pos[order[i]]].score
                                  b == runs[pos[order[j]]].score
                              IN  /\ TotalCmpGe(a, b)
                                  /\ a = b => order[i] < order[j]

\* two records of equal score kept in input order against their rank fields
C11_Witness ==
    /\ op = "group_runs_by_query"
    /\ Len(runs) >= 2
    /\ runs[1].query_id = runs[2].query_id /\ runs[1].run_tag = runs[2].run_tag
    /\ runs[1].score = runs[2].score
    /\ runs[1].doc_id # runs[2].doc_id
    /\ runs[1].rank > runs[2].rank
    /\ grouped[runs[1].query_id][runs[1].run_tag]
          = <<<<runs[1].doc_id, runs[1].score>>, <<runs[2].doc_id, runs[2].score>>>>

\* the (query_id, doc_id) pairs of the qrel records
PairsOf(qs) == {<<qs[i].query_id, qs[i].doc_id>> : i \in 1..Len(qs)}

\* the (query_id, doc_id) pairs of a grouped map
PairsIn(map) == UNION {{<<q, d>> : d \in DOMAIN map[q]} : q \in DOMAIN map}

\* C12: group_qrels_by_query maps each (query_id, doc_id) pair of the input to
\* the relevance of the last record with that pair, and holds no other pair.
C12_LastWriteWins ==
    op = "group_qrels_by_query" =>
        /\ PairsIn(grouped) = PairsOf(qrels)
        /\ \A q \in DOMAIN grouped : grouped[q] # <<>>
        /\ \A i \in 1..Len(qrels) :
              (\A j \in (i + 1)..Len(qrels) :
                    <<qrels[j].query_id, qrels[j].doc_id>>
                        # <<qrels[i].query_id, qrels[i].doc_id>>)
                  => grouped[qrels[i].query_id][qrels[i].doc_id] = qrels[i].relevance

\* a pair judged twice with different grades beside a pair judged once
C12_Witness ==
    /\ op = "group_qrels_by_query"
    /\ \E i, j \in 1..Len(qrels) :
          /\ i < j
          /\ qrels[i].query_id = qrels[j].query_id
          /\ qrels[i].doc_id = qrels[j].doc_id
          /\ qrels[i].relevance # qrels[j].relevance
          /\ grouped[qrels[j].query_id][qrels[j].doc_id] = qrels[j].relevance

----------------------------------------------------------------------------
(* src/trec.rs: parsing.  A file is the sequence of its lines; a line is   *)
(* the sequence of the whitespace-separated tokens of its trimmed text     *)
(* (none for a blank line).  A token is a string; the token "#q1" stands   *)
(* for a token whose first character is '#'.                               *)

\* line.is_empty() || line.starts_with('#'), on the trimmed line
IsSkipped(line) == line = <<>> \/ line[1] \in {"#", "#q1"}

\* str::parse::<usize>() and str::parse::<u32>(): decimal digits, an optional
\* leading '+'; no '-', no fraction
ParseUnsigned(tok) ==
    CASE tok = "0" -> [ok |-> TRUE, value |-> 0]
      [] tok = "1" -> [ok |-> TRUE, value |-> 1]
      [] tok = "2" -> [ok |-> TRUE, value |-> 2]
      [] tok = "+1" -> [ok |-> TRUE, value |-> 1]
      [] OTHER -> [ok |-> FALSE, value |-> 0]

\* str::parse::<f32>() followed by is_finite(): "inf" and "NaN" parse, to a
\* value that is not finite
ParseF32(tok) ==
    CASE tok = "0" -> [ok |-> TRUE, finite |-> TRUE, value |-> F32(FALSE, 0)]
      [] tok = "-0.0" -> [ok |-> TRUE, finite |-> TRUE, value |-> F32(TRUE, 0)]
      [] tok = "1" -> [ok |-> TRUE, finite |-> TRUE, value |-> F32(FALSE, 1)]
      [] tok = "2.0" -> [ok |-> TRUE, finite |-> TRUE, value |-> F32(FALSE, 2)]
      [] tok = "-1" -> [ok |-> TRUE, finite |-> TRUE, value |-> F32(TRUE, 1)]
      [] tok \in {"inf", "NaN"} ->
             [ok |-> TRUE, finite |-> FALSE, value |-> F32(FALSE, 0)]
      [] OTHER -> [ok |-> FALSE, finite |-> FALSE, value |-> F32(FALSE, 0)]

\* parts[5..].join(" "): the tokens from the sixth on, kept as their sequence
JoinFrom(parts, from) == SubSeq(parts, from, Len(parts))

\* Ok(records)
ParseOk(called, records) ==
    [called |-> called, ok |-> TRUE, records |-> records,
     kind |-> "none", line_num |-> 0, content |-> <<>>]

\* Err(..): the kind of the message, the line number it names, and the line
\* text it quotes (<<line>>, or <<>> when the message quotes no line)
ParseErr(called, kind, line_num, content) ==
    [called |-> called, ok |-> FALSE, records |-> <<>>,
     kind |-> kind, line_num |-> line_num, content |-> content]

\* load_trec_runs keeping only parts[5] as the run tag
ParseRunLineOneTagToken(line, line_num) ==
    LET parts == line
    IN  IF Len(parts) < 6
        THEN IF Len(parts) = 5 /\ parts[2] # "Q0"
             THEN [ok |-> FALSE, kind |-> "expected_q0",
                   line_num |-> line_num + 1, content |-> <<>>]
             ELSE [ok |-> FALSE, kind |-> "too_few_fields",
                   line_num |-> line_num + 1, content |-> <<line>>]
        ELSE IF parts[2] # "Q0"
        THEN [ok |-> FALSE, kind |-> "expected_q0",
              line_num |-> line_num + 1, content |-> <<>>]
        ELSE IF ~ParseUnsigned(parts[4]).ok
        THEN [ok |-> FALSE, kind |-> "invalid_rank",
              line_num |-> line_num + 1, content |-> <<>>]
        ELSE IF ~ParseF32(parts[5]).ok
        THEN [ok |-> FALSE, kind |-> "invalid_score",
              line_num |-> line_num + 1, content |-> <<>>]
        ELSE IF ~ParseF32(parts[5]).finite
        THEN [ok |-> FALSE, kind |-> "non_finite_score",
              line_num |-> line_num + 1, content |-> <<>>]
        ELSE [ok |-> TRUE,
              record |-> [query_id |-> parts[1],
                          doc_id |-> parts[3],
                          rank |-> ParseUnsigned(parts[4]).value,
                          score |-> ParseF32(parts[5]).value,
                          run_tag |-> <<parts[6]>>]]

\* the body of the loop of load_trec_runs for one line that is not skipped,
\* line_num counted from 0: the record pushed, or the error returned
ParseRunLine(line, line_num) ==
    LET parts == line
    IN  IF Len(parts) < 6
        THEN IF Len(parts) = 5 /\ parts[2] # "Q0"
             THEN [ok |-> FALSE, kind |-> "expected_q0",
                   line_num |-> line_num + 1, content |-> <<>>]
             ELSE [ok |-> FALSE, kind |-> "too_few_fields",
                   line_num |-> line_num + 1, content |-> <<line>>]
        ELSE IF parts[2] # "Q0"
        THEN [ok |-> FALSE, kind |-> "expected_q0",
              line_num |-> line_num + 1, content |-> <<>>]
        ELSE IF ~ParseUnsigned(parts[4]).ok
        THEN [ok |-> FALSE, kind |-> "invalid_rank",
              line_num |-> line_num + 1, content |-> <<>>]
        ELSE IF ~ParseF32(parts[5]).ok
        THEN [ok |-> FALSE, kind |-> "invalid_score",
              line_num |-> line_num + 1, content |-> <<>>]
        ELSE IF ~ParseF32(parts[5]).finite
        THEN [ok |-> FALSE, kind |-> "non_finite_score",
              line_num |-> line_num + 1, content |-> <<>>]
        ELSE [ok |-> TRUE,
              record |-> [query_id |-> parts[1],
                          doc_id |-> parts[3],
                          rank |-> ParseUnsigned(parts[4]).value,
                          score |-> ParseF32(parts[5]).value,
                          run_tag |-> JoinFrom(parts, 6)]]

\* load_qrels refusing a line of more than 4 tokens
ParseQrelLineExactlyFour(line, line_num) ==
    LET parts == line
    IN  IF Len(parts) # 4
        THEN [ok |-> FALSE, kind |-> "too_few_fields",
              line_num |-> line_num + 1, content |-> <<line>>]
        ELSE IF parts[2] # "0"
        THEN [ok |-> FALSE, kind |-> "expected_0",
              line_num |-> line_num + 1, content |-> <<>>]
        ELSE IF ~ParseUnsigned(parts[4]).ok
        THEN [ok |-> FALSE, kind |-> "invalid_relevance",
              line_num |-> line_num + 1, content |-> <<>>]
        ELSE [ok |-> TRUE,
              record |-> [query_id |-> parts[1],
                          doc_id |-> parts[3],
                          relevance |-> ParseUnsigned(parts[4]).value]]

\* the body of the loop of load_qrels for one line that is not skipped
ParseQrelLine(line, line_num) ==
    LET parts == line
    IN  IF Len(parts) < 4
        THEN [ok |-> FALSE, kind |-> "too_few_fields",
              line_num |-> line_num + 1, content |-> <<line>>]
        ELSE IF parts[2] # "0"
        THEN [ok |-> FALSE, kind |-> "expected_0",
              line_num |-> line_num + 1, content |-> <<>>]
        ELSE IF ~ParseUnsigned(parts[4]).ok
        THEN [ok |-> FALSE, kind |-> "invalid_relevance",
              line_num |-> line_num + 1, content |-> <<>>]
        ELSE [ok |-> TRUE,
              record |-> [query_id |-> parts[1],
                          doc_id |-> parts[3],
                          relevance |-> ParseUnsigned(parts[4]).value]]

\* the loop with `continue` in the place of the early return: a malformed
\* line is dropped and the records of the other lines are returned
RECURSIVE LoadLoopDroppingBadLines(_, _, _)
LoadLoopDroppingBadLines(called, lines, n) ==
    IF n = 0 THEN ParseOk(called, <<>>)
    ELSE LET prev == LoadLoopDroppingBadLines(called, lines, n - 1)
             line == lines[n]
         IN  IF IsSkipped(line) THEN prev
             ELSE LET one == IF called = "load_trec_runs"
                             THEN ParseRunLine(line, n - 1)
                             ELSE ParseQrelLine(line, n - 1)
                  IN  IF one.ok
                      THEN ParseOk(called, Append(prev.records, one.record))
                      ELSE prev

\* `for (line_num, line) in reader.lines().enumerate()` after the first n
\* lines, with the parser of one line given by its name: the Result so far
\* (an Err is returned at once, so it stays)
RECURSIVE LoadLoop(_, _, _)
LoadLoop(called, lines, n) ==
    IF n = 0 THEN ParseOk(called, <<>>)
    ELSE LET prev == LoadLoop(called, lines, n - 1)
             line == lines[n]
         IN  IF ~prev.ok THEN prev
             ELSE IF IsSkipped(line) THEN prev
             ELSE LET one == IF called = "load_trec_runs"
                             THEN ParseRunLine(line, n - 1)
                             ELSE ParseQrelLine(line, n - 1)
                  IN  IF one.ok
                      THEN ParseOk(called, Append(prev.records, one.record))
                      ELSE ParseErr(called, one.kind, one.line_num, one.content)

load_trec_runs(lines) == LoadLoop("load_trec_runs", lines, Len(lines))

load_qrels(lines) == LoadLoop("load_qrels", lines, Len(lines))

----------------------------------------------------------------------------
(* Calls of load_trec_runs and load_qrels on a file.                       *)

MaxLines == 2       \* most lines of a file

\* a run line of up to 7 tokens, right or wrong in its second, fourth and
\* fifth token, and a comment line
RunLines ==
    {SubSeq(<<"q1", b, "d1", r, sc, "my", "tag">>, 1, n) :
        b \in {"Q0", "0"}, r \in {"1", "x"}, sc \in {"2.0", "inf", "x"},
        n \in 0..7}
      \cup {<<"#q1", "Q0", "d1", "1", "2.0", "my">>}

\* a qrel line of up to 5 tokens, right or wrong in its second and fourth
\* token, and a comment line
QrelLines ==
    {SubSeq(<<"q1", z, "d1", g, "extra">>, 1, n) :
        z \in {"0", "Q0"}, g \in {"2", "x", "-1"}, n \in 0..5}
      \cup {<<"#q1", "0", "d1", "2">>}

InitParse ==
    /\ ValidationIdle
    /\ StatIdle
    /\ BinaryIdle
    /\ BatchIdle
    /\ grouped = <<>>
    /\ graded_qrels = <<>>
    /\ parsed = NoParse
    /\ file \in SeqsUpTo(RunLines, MaxLines) \cup SeqsUpTo(QrelLines, MaxLines)

Loaded(result) ==
    /\ op = "none"
    /\ parsed.called = "none"
    /\ parsed' = result
    /\ UNCHANGED <<grouped, file, graded_qrels>>
    /\ UNCHANGED binvars
    /\ UNCHANGED batchvars
    /\ UNCHANGED valvars
    /\ UNCHANGED statvars

\* the harness reads a run file
LoadTrecRuns ==
    /\ \A i \in 1..Len(file) : file[i] \in RunLines
    /\ Loaded(load_trec_runs(file))

\* the harness reads a qrels file
LoadQrels ==
    /\ \A i \in 1..Len(file) : file[i] \in QrelLines
    /\ Loaded(load_qrels(file))

NextParse ==
    \/ LoadTrecRuns
    \/ LoadQrels

SpecParse == InitParse /\ [][NextParse]_vars

\* the claims' reading of a well-formed run line
RunLineWellFormed(line) ==
    /\ Len(line) >= 6
    /\ line[2] = "Q0"
    /\ ParseUnsigned(line[4]).ok
    /\ ParseF32(line[5]).ok /\ ParseF32(line[5]).finite

\* the claims' reading of a well-formed qrel line
QrelLineWellFormed(line) ==
    /\ Len(line) >= 4
    /\ line[2] = "0"
    /\ ParseUnsigned(line[4]).ok

WellFormed(line) ==
    IF parsed.called = "load_trec_runs" THEN RunLineWellFormed(line)
    ELSE QrelLineWellFormed(line)

\* the numbers (from 1) of the lines of the file that are not skipped
DataLines == {i \in 1..Len(file) : ~IsSkipped(file[i])}

BadLines == {i \in DataLines : ~WellFormed(file[i])}

\* the numbers of the data lines, in file order
DataLineSeq == SelectSeq([i \in 1..Len(file) |-> i], LAMBDA i : i \in DataLines)

\* C13: a file with a malformed data line gives an error and no record, the
\* error being that of the first malformed line; a file with none gives one
\* record per data line, in file order.
C13_AllOrNothing ==
    parsed.called # "none" =>
        IF BadLines = {}
        THEN /\ parsed.ok
             /\ Len(parsed.records) = Len(DataLineSeq)
             /\ \A j \in 1..Len(DataLineSeq) :
                   /\ parsed.records[j].query_id = file[DataLineSeq[j]][1]
                   /\ parsed.records[j].doc_id = file[DataLineSeq[j]][3]
        ELSE LET first == CHOOSE i \in BadLines : \A j \in BadLines : i <= j
             IN  /\ ~parsed.ok
                 /\ parsed.records = <<>>
                 /\ parsed.line_num = first

\* a well-formed line before a malformed one
C13_Witness ==
    /\ parsed.called # "none"
    /\ ~parsed.ok
    /\ parsed.line_num = 2
    /\ 1 \in DataLines
    /\ 1 \notin BadLines

\* C14: load_trec_runs accepts a data line iff it has at least 6 tokens, the
\* second is Q0, the fourth parses as a non-negative integer and the fifth as
\* a finite float; the record is (token 1, token 3, rank, score, tokens 6..n).
C14_RunLineAccepted ==
    parsed.called = "load_trec_runs" =>
        /\ parsed.ok <=> \A i \in DataLines : RunLineWellFormed(file[i])
        /\ parsed.ok =>
              /\ Len(parsed.records) = Len(DataLineSeq)
              /\ \A j \in 1..Len(DataLineSeq) :
                    LET line == file[DataLineSeq[j]]
                    IN  parsed.records[j]
                          = [query_id |-> line[1],
                             doc_id |-> line[3],
                             rank |-> ParseUnsigned(line[4]).value,
                             score |-> ParseF32(line[5]).value,
                             run_tag |-> SubSeq(line, 6, Len(line))]

\* a run line of 7 tokens is accepted with a run tag of two tokens
C14_Witness ==
    /\ parsed.called = "load_trec_runs"
    /\ parsed.ok
    /\ \E j \in 1..Len(parsed.records) : Len(parsed.records[j].run_tag) = 2

\* C15: load_qrels accepts a data line iff it has at least 4 tokens, the
\* second is 0 and the fourth parses as a non-negative integer; the record is
\* (token 1, token 3, relevance) and the tokens after the fourth are ignored.
C15_QrelLineAccepted ==
    parsed.called = "load_qrels" =>
        /\ parsed.ok <=> \A i \in DataLines : QrelLineWellFormed(file[i])
        /\ parsed.ok =>
              /\ Len(parsed.records) = Len(DataLineSeq)
              /\ \A j \in 1..Len(DataLineSeq) :
                    LET line == file[DataLineSeq[j]]
                    IN  parsed.records[j]
                          = [query_id |-> line[1],
                             doc_id |-> line[3],
                             relevance |-> ParseUnsigned(line[4]).value]

\* a qrel line of 5 tokens is accepted
C15_Witness ==
    /\ parsed.called = "load_qrels"
    /\ parsed.ok
    /\ \E i \in DataLines : Len(file[i]) = 5

\* C16: every parse error carries the number (from 1, skipped lines counted)
\* of the offending line and the content of that line.
C16_ErrorCarriesLineAndContent ==
    (parsed.called # "none" /\ ~parsed.ok) =>
        /\ parsed.line_num \in BadLines
        /\ \A j \in BadLines : parsed.line_num <= j
        /\ parsed.content = <<file[parsed.line_num]>>

----------------------------------------------------------------------------
(* src/graded.rs.  ranked is a sequence of (doc_id, score) pairs, qrels a  *)
(* map from the judged document ids to their grades (u32).                 *)

\* ((rank + 2) as f64).log2(), from the table of its reciprocal
Log2(i) == Div(One, Discount(i - 2))

\* qrels.get(doc_id): the grade of a judged document
GradeOf(q, doc_id) == IF doc_id \in DOMAIN q THEN q[doc_id] ELSE 0

\* the positive grades sorted the wrong way round: sort_by(|a, b| a.cmp(b))
RECURSIVE GainsAscending(_, _)
GainsAscending(q, docs) ==
    IF docs = {} THEN <<>>
    ELSE LET d == CHOOSE d \in docs : \A e \in docs : q[d] <= q[e]
         IN  <<q[d]>> \o GainsAscending(q, docs \ {d})

\* the grades of the documents docs of q, greatest first:
\* ideal_gains.sort_by(|a, b| b.cmp(a))
RECURSIVE GainsDescending(_, _)
GainsDescending(q, docs) ==
    IF docs = {} THEN <<>>
    ELSE LET d == CHOOSE d \in docs : \A e \in docs : q[d] >= q[e]
         IN  <<q[d]>> \o GainsDescending(q, docs \ {d})

\* qrels.values().copied().filter(|&r| r > 0).collect(), then sorted
IdealGains(q) == GainsDescending(q, {d \in DOMAIN q : q[d] > 0})

\* the first loop of compute_ndcg after n positions: dcg
RECURSIVE GradedDcgLoop(_, _, _)
GradedDcgLoop(r, q, n) ==
    IF n = 0 THEN Zero
    ELSE LET prev == GradedDcgLoop(r, q, n - 1)
             relevance == GradeOf(q, r[n][1])
         IN  IF r[n][1] \in DOMAIN q /\ relevance > 0
             THEN Add(prev, Div(F(relevance), Log2((n - 1) + 2)))
             ELSE prev

\* the second loop with every gain counted as 1
RECURSIVE GradedIdcgLoopBinary(_, _)
GradedIdcgLoopBinary(gains, n) ==
    IF n = 0 THEN Zero
    ELSE Add(GradedIdcgLoopBinary(gains, n - 1), Div(One, Log2((n - 1) + 2)))

\* the second loop of compute_ndcg after n gains: idcg
RECURSIVE GradedIdcgLoop(_, _)
GradedIdcgLoop(gains, n) ==
    IF n = 0 THEN Zero
    ELSE Add(GradedIdcgLoop(gains, n - 1),
             Div(F(gains[n]), Log2((n - 1) + 2)))

compute_ndcg(r, q, kk) ==
    LET ideal_gains == IdealGains(q)
        dcg == GradedDcgLoop(r, q, Min(kk, Len(r)))
        idcg == GradedIdcgLoop(ideal_gains, Min(kk, Len(ideal_gains)))
    IN  IF Lt(Zero, idcg) THEN Div(dcg, idcg) ELSE Zero

\* the loop of compute_map counting every judged document, of grade 0 too
RECURSIVE MapLoopAnyJudged(_, _, _)
MapLoopAnyJudged(r, q, n) ==
    IF n = 0 THEN <<Zero, 0>>
    ELSE LET prev == MapLoopAnyJudged(r, q, n - 1)
         IN  IF r[n][1] \in DOMAIN q
             THEN <<Add(prev[1], Div(F(prev[2] + 1), F((n - 1) + 1))), prev[2] + 1>>
             ELSE prev

\* the loop of compute_map after n positions: <<sum_precision, relevant_found>>
RECURSIVE MapLoop(_, _, _)
MapLoop(r, q, n) ==
    IF n = 0 THEN <<Zero, 0>>
    ELSE LET prev == MapLoop(r, q, n - 1)
         IN  IF GradeOf(q, r[n][1]) > 0
             THEN <<Add(prev[1], Div(F(prev[2] + 1), F((n - 1) + 1))), prev[2] + 1>>
             ELSE prev

compute_map(r, q) ==
    LET relevant_docs == {d \in DOMAIN q : q[d] > 0}
        done == MapLoop(r, q, Len(r))
    IN  IF relevant_docs = {} THEN Zero
        ELSE IF done[2] > 0
             THEN Div(done[1], F(Cardinality(relevant_docs)))
             ELSE Zero

----------------------------------------------------------------------------
(* Calls of the graded metrics on a fixed (ranked, qrels) pair.            *)

MaxGrade == 2       \* greatest relevance grade of a judgment

\* the ranked lists: (doc_id, score) pairs, the scores being unread
GradedRankings ==
    {[i \in 1..Len(ids) |-> <<ids[i], F32(FALSE, 1)>>] : ids \in SeqsUpTo(Docs, MaxLen)}

\* the grade maps: some documents judged, each with a grade
GradeMaps == UNION {[judged -> 0..MaxGrade] : judged \in SUBSET Docs}

InitGraded ==
    /\ ValidationIdle
    /\ StatIdle
    /\ ranked \in GradedRankings
    /\ graded_qrels \in GradeMaps
    /\ relevant = {}
    /\ k = 0
    /\ param = Zero
    /\ n_relevant = 0
    /\ op = "none"
    /\ out = Zero
    /\ BatchIdle
    /\ grouped = <<>>
    /\ file = <<>>
    /\ parsed = NoParse

CallComputeNdcg ==
    \E kk \in 0..MaxK :
        Returned("compute_ndcg", kk, Zero, 0, compute_ndcg(ranked, graded_qrels, kk))

CallComputeMap ==
    Returned("compute_map", 0, Zero, 0, compute_map(ranked, graded_qrels))

NextGraded ==
    \/ CallComputeNdcg
    \/ CallComputeMap

SpecGraded == InitGraded /\ [][NextGraded]_vars

\* the document ids of a ranked list of (doc_id, score) pairs
IdsOf(r) == [i \in 1..Len(r) |-> r[i][1]]

\* the positively graded documents
PositiveDocs == {d \in DOMAIN graded_qrels : graded_qrels[d] > 0}

\* C17: compute_map(ranked, qrels) equals average_precision on the ids of
\* ranked and the set of the positively graded documents.
C17_MapIsBinaryAp ==
    op = "compute_map" => out = average_precision(IdsOf(ranked), PositiveDocs)

\* a document graded 0 and an unjudged one above a relevant one
C17_Witness ==
    /\ op = "compute_map"
    /\ Len(ranked) = 3
    /\ ranked[1][1] \in DOMAIN graded_qrels /\ graded_qrels[ranked[1][1]] = 0
    /\ ranked[2][1] \notin DOMAIN graded_qrels
    /\ ranked[3][1] \in PositiveDocs
    /\ out = Rat(1, 3)

\* the ranking is ideal at cutoff kk: its first min(kk, m) entries carry
\* positive grades in non-increasing order, and no document outside them has
\* a greater grade than the last of them
IdealAt(kk) ==
    LET n == Min(kk, Cardinality(PositiveDocs))
    IN  /\ Len(ranked) >= n
        /\ \A i \in 1..n : ranked[i][1] \in PositiveDocs
        /\ \A i, j \in 1..n :
              i < j => graded_qrels[ranked[i][1]] >= graded_qrels[ranked[j][1]]
        /\ n >= 1 =>
              \A d \in PositiveDocs \ {ranked[i][1] : i \in 1..n} :
                  graded_qrels[d] <= graded_qrels[ranked[n][1]]

\* C18: compute_ndcg is exactly 1.0 for k >= 1 on a list of distinct ids that
\* is ideal at k, when some document has a positive grade.
C18_IdealRankingIsOne ==
    (/\ op = "compute_ndcg"
     /\ k >= 1
     /\ NoDup(IdsOf(ranked))
     /\ PositiveDocs # {}
     /\ IdealAt(k)) => out = One

\* an ideal ranking of three positive grades, two of them different, cut
\* below their number
C18_Witness ==
    /\ op = "compute_ndcg"
    /\ NoDup(IdsOf(ranked))
    /\ IdealAt(k)
    /\ Cardinality(PositiveDocs) = 3
    /\ k = 2
    /\ graded_qrels[ranked[1][1]] > graded_qrels[ranked[2][1]]
    /\ out = One

\* C19: on a list of distinct ids compute_ndcg is in [0, 1], and it is 0.0
\* when the ideal DCG is 0 (no positive grade, or k = 0).
C19_GradedNdcgBounded ==
    (op = "compute_ndcg" /\ NoDup(IdsOf(ranked))) =>
        /\ InUnit(out)
        /\ (PositiveDocs = {} \/ k = 0) => out = Zero

\* a ranking that is not ideal scores strictly between 0 and 1
C19_Witness ==
    /\ op = "compute_ndcg"
    /\ NoDup(IdsOf(ranked))
    /\ Len(ranked) >= 2
    /\ GradeOf(graded_qrels, ranked[1][1]) < GradeOf(graded_qrels, ranked[2][1])
    /\ GradeOf(graded_qrels, ranked[1][1]) > 0
    /\ Lt(Zero, out) /\ Lt(out, One)

----------------------------------------------------------------------------
(* Validation against the metrics (checked under Spec).                    *)

\* p <= 0 or p >= 1
OutsideOpenUnit(p) == Le(p, Zero) \/ Le(One, p)

\* C21: for p <= 0 or p >= 1 rbp_at_k returns 0.0, and validate_persistence
\* returns InvalidPersistence for exactly those p, Ok for every p inside (0,1).
C21_SamePersistencePredicate ==
    /\ (op = "rbp_at_k" /\ OutsideOpenUnit(param)) => out = Zero
    /\ op = "validate_persistence" =>
          /\ validated.kind \in {"Ok", "InvalidPersistence"}
          /\ validated.kind = "InvalidPersistence" <=> OutsideOpenUnit(param)
          /\ validated.kind = "InvalidPersistence"
                => validated.persistence = param
          /\ (Lt(Zero, param) /\ Lt(param, One)) => validated.kind = "Ok"

\* the boundary 1.0 is refused
C21_Witness ==
    /\ op = "validate_persistence"
    /\ param = One
    /\ validated.kind = "InvalidPersistence"

C29_NoDivisionByZero ==
    (op = "f_measure_at_k" /\ IsFinite(param)) =>
        LET P == precision_at_k(ranked, relevant, k)
            R == recall_at_k(ranked, relevant, k)
        IN  /\ FEq(P, Zero) <=> FEq(R, Zero)
            /\ FEq(P, Zero) => out = Zero
            /\ ~FEq(P, Zero) =>
                  /\ ~FEq(Add(Mul(Mul(param, param), P), R), Zero)
                  /\ IsFinite(out)

\* beta = 0 with a hit in the top k: the value is the precision
C29_Witness ==
    /\ op = "f_measure_at_k"
    /\ param = Zero
    /\ Lt(Zero, out)
    /\ out = precision_at_k(ranked, relevant, k)

----------------------------------------------------------------------------
(* More properties of the batch evaluators (checked under SpecBatch).      *)

\* the last grade the qrel records give to (q, d); -1 when there is none
LastGrade(q, d) ==
    LET at == {i \in 1..Len(qrels) :
                  qrels[i].query_id = q /\ qrels[i].doc_id = d}
    IN  IF at = {} THEN -1
        ELSE qrels[CHOOSE i \in at : \A j \in at : j <= i].relevance

PositivelyJudged(q) == {d \in BatchDocs : LastGrade(q, d) > 0}

\* C22: evaluate_trec_batch scores each query against exactly the documents
\* whose grouped grade is > 0; a query of runs and qrels whose judgments are
\* all 0 is returned with every recognized requested metric 0.0, and it counts
\* in the divisor of the means.
C22_RelevantIsPositiveGrade ==
    CalledTrec =>
        LET qrs == results.query_results
        IN  /\ \A i \in 1..Len(qrs) :
                  /\ DOMAIN qrs[i].metrics = KnownRequested
                  /\ \A name \in KnownRequested :
                        /\ qrs[i].metrics[name]
                              = Dispatch(name, ScoredRanked(i),
                                         PositivelyJudged(qrs[i].query_id))
                        /\ PositivelyJudged(qrs[i].query_id) = {}
                              => qrs[i].metrics[name] = Zero
            /\ \A q \in QueriesOf(qrels) \cap QueriesOf(runs) :
                  \E i \in 1..Len(qrs) : qrs[i].query_id = q
            /\ \A name \in DOMAIN results.aggregated :
                  results.aggregated[name]
                      = Div(SumOver(qrs, name, Len(qrs)), F(Len(qrs)))

\* one query judged all 0 and ranked, the other with a hit: the mean is halved
C22_Witness ==
    /\ CalledTrec
    /\ Len(results.query_results) = 2
    /\ \E i, j \in 1..2 :
          /\ PositivelyJudged(results.query_results[i].query_id) = {}
          /\ ScoredRanked(i) # <<>>
          /\ "mrr" \in DOMAIN results.aggregated
          /\ results.query_results[i].metrics["mrr"] = Zero
          /\ results.query_results[j].metrics["mrr"] = One
          /\ results.aggregated["mrr"] = Rat(1, 2)

\* the metrics of each returned query, whatever the order of the results
MetricsByQuery(res) ==
    [q \in {res.query_results[i].query_id : i \in 1..Len(res.query_results)} |->
        (CHOOSE i \in 1..Len(res.query_results) :
            res.query_results[i].query_id = q)]

ValuesByQuery(res) ==
    LET at == MetricsByQuery(res)
    IN  [q \in DOMAIN at |-> res.query_results[at[q]].metrics]

\* C27: evaluate_trec_batch is deterministic: every other evaluation of the
\* same runs, qrels and metric list gives the same per-query metric values and
\* the same aggregated means as the one made.
C27_Deterministic ==
    CalledTrec =>
        LET runs_by_query == group_runs_by_query(runs)
            run_queries == DOMAIN runs_by_query
        IN  \A order \in IterationOrders(qrels, group_qrels_by_query(qrels)),
               first_run_tag \in [run_queries -> Tags] :
                (\A q \in run_queries :
                    first_run_tag[q] \in FirstKeys(runs_by_query[q]))
                => LET other == evaluate_trec_batch(runs, qrels, metrics,
                                                    order, first_run_tag)
                   IN  /\ ValuesByQuery(other) = ValuesByQuery(results)
                       /\ other.aggregated = results.aggregated

CalledBinary == results.called = "evaluate_batch_binary"

\* C28: evaluate_batch_binary on rankings and relevant sets of different
\* lengths panics and returns nothing; otherwise query_results has one entry
\* per input pair, in input order, the i-th (from 0) named query_i and holding
\* each recognized requested metric computed on the i-th ranking and the i-th
\* relevant set, also when no metric is recognized.
C28_OneResultPerPair ==
    CalledBinary =>
        IF Len(rankings) # Len(rel_sets)
        THEN results.panicked /\ results.query_results = <<>>
        ELSE /\ ~results.panicked
             /\ Len(results.query_results) = Len(rankings)
             /\ \A i \in 1..Len(rankings) :
                   LET qr == results.query_results[i]
                   IN  /\ qr.query_id = <<"query", i - 1>>
                       /\ DOMAIN qr.metrics = KnownRequested
                       /\ \A name \in KnownRequested :
                             qr.metrics[name]
                                 = Dispatch(name, rankings[i], rel_sets[i])

C28_Witness ==
    /\ CalledBinary
    /\ ~results.panicked
    /\ metrics = <<"nope">>
    /\ Len(results.query_results) = 2
    /\ rankings[1] # rankings[2]
    /\ results.query_results[2].query_id = <<"query", 1>>
    /\ DOMAIN results.query_results[2].metrics = {}

\* C30: every per-query metric value and every aggregated mean returned by
\* evaluate_trec_batch is in [0, 1], also when the runs repeat an entry.
C30_TrecMetricsBounded ==
    CalledTrec =>
        /\ \A i \in 1..Len(results.query_results) :
              \A name \in DOMAIN results.query_results[i].metrics :
                  InUnit(results.query_results[i].metrics[name])
        /\ \A name \in DOMAIN results.aggregated :
              InUnit(results.aggregated[name])

----------------------------------------------------------------------------
(* src/statistics.rs.  A TTestResult is a record with the fields of the    *)
(* struct, plus called and panicked; the f64 returned by cohens_d is the   *)
(* field value.                                                            *)

\* the largest r with r * r <= x, for lo <= r <= hi
RECURSIVE ISqrtBetween(_, _, _)
ISqrtBetween(x, lo, hi) ==
    IF lo >= hi THEN lo
    ELSE LET mid == (lo + hi + 1) \div 2
         IN  IF mid * mid <= x THEN ISqrtBetween(x, mid, hi)
             ELSE ISqrtBetween(x, lo, mid - 1)

ISqrt(x) == ISqrtBetween(x, 0, Min(x, 46340))

\* the grid a square root is rounded down to: 1 / (d * SqrtScale) for a
\* radicand n / d
SqrtScale == 100

\* f64::sqrt: NaN for NaN and for a negative radicand, infinity for infinity,
\* the exact root of a square of a rational, else the root rounded down to
\* the grid (never to 0: a positive radicand has a positive root)
Sqrt(a) ==
    IF IsNaN(a) THEN NaN
    ELSE IF ~IsFinite(a) THEN (IF a.n > 0 THEN a ELSE NaN)
    ELSE IF a.n < 0 THEN NaN
    ELSE Rat(ISqrt(a.n * a.d * SqrtScale * SqrtScale), a.d * SqrtScale)

\* x > 1e-10 and x < 1e-10 on the values of Sqrt: a nonzero one is at least
\* 1 / (d * SqrtScale), far above 1e-10
AboveEpsilon(x) == Lt(Zero, x)

BelowEpsilon(x) == Le(x, Zero)

RECURSIVE SumTo(_, _)
SumTo(xs, n) == IF n = 0 THEN Zero ELSE Add(SumTo(xs, n - 1), xs[n])

\* xs.iter().sum::<f64>()
Sum(xs) == SumTo(xs, Len(xs))

\* xs.iter().map(|x| (x - mean).powi(2)).sum::<f64>()
SquaredDeviations(xs, mean) ==
    Sum([i \in 1..Len(xs) |-> Mul(Sub(xs[i], mean), Sub(xs[i], mean))])

\* normal_cdf at z = 0, 1/2, 1, ..., 4 in units of 1/10000, as erf's
\* Abramowitz and Stegun polynomial gives it (rounded to that unit)
NormalCdfTable == <<5000, 6915, 8413, 9332, 9772, 9938, 9987, 9998, 10000>>

\* floor(2 z) for a finite z >= 0
HalfSteps(z) == (2 * z.n) \div z.d

\* normal_cdf(x) for x >= 0 or NaN: the table entry at the largest half-integer
\* step not above x (erf of NaN is NaN: NaN < 0.0 is false and NaN.abs() is NaN)
normal_cdf(x) ==
    IF IsNaN(x) THEN NaN
    ELSE IF ~IsFinite(x) THEN One
    ELSE Rat(NormalCdfTable[Min(HalfSteps(x), Len(NormalCdfTable) - 1) + 1],
             NormalCdfTable[Len(NormalCdfTable)])

\* f64::abs
FAbs(x) == [n |-> Abs(x.n), d |-> x.d]

\* assert_eq!(method_a.len(), method_b.len(), ...) failed
StatPanicked(called) == [called |-> called, panicked |-> TRUE]

TTestResult(t_statistic, p_value, df, mean_diff, std_error, significant) ==
    [called |-> "paired_t_test", panicked |-> FALSE,
     t_statistic |-> t_statistic, p_value |-> p_value,
     degrees_of_freedom |-> df, mean_difference |-> mean_diff,
     std_error |-> std_error, significant |-> significant]

\* the steps of paired_t_test after its early return
TTestComputed(a, b, al, df) ==
    LET n == Len(a)
        differences == [i \in 1..n |-> Sub(a[i], b[i])]
        mean_diff == Div(Sum(differences), F(n))
        variance == Div(SquaredDeviations(differences, mean_diff), F(n - 1))
        std_error == Sqrt(Div(variance, F(n)))
        t_statistic == IF AboveEpsilon(std_error)
                       THEN Div(mean_diff, std_error) ELSE Zero
        z == FAbs(t_statistic)
        p_value == Mul(F(2), Sub(One, normal_cdf(z)))
    IN  TTestResult(t_statistic, p_value, df, mean_diff, std_error,
                    Lt(p_value, al))

\* degrees_of_freedom taken as the number of pairs
paired_t_test_df_is_len(a, b, al) ==
    IF Len(a) # Len(b) THEN StatPanicked("paired_t_test")
    ELSE IF Len(a) < 2 THEN TTestResult(Zero, One, 0, Zero, Zero, FALSE)
    ELSE TTestComputed(a, b, al, Len(a))

paired_t_test(a, b, al) ==
    IF Len(a) # Len(b) THEN StatPanicked("paired_t_test")
    ELSE IF Len(a) < 2 THEN TTestResult(Zero, One, 0, Zero, Zero, FALSE)
    ELSE TTestComputed(a, b, al, Len(a) - 1)

cohens_d(a, b) ==
    IF Len(a) # Len(b) THEN StatPanicked("cohens_d")
    ELSE IF a = <<>>
         THEN [called |-> "cohens_d", panicked |-> FALSE, value |-> Zero]
    ELSE LET mean_a == Div(Sum(a), F(Len(a)))
             mean_b == Div(Sum(b), F(Len(b)))
             var_a == Div(SquaredDeviations(a, mean_a), F(Len(a) - 1))
             var_b == Div(SquaredDeviations(b, mean_b), F(Len(b) - 1))
             pooled_std == Sqrt(Div(Add(var_a, var_b), F(2)))
         IN  [called |-> "cohens_d", panicked |-> FALSE,
              value |-> IF BelowEpsilon(pooled_std) THEN Zero
                        ELSE Div(Sub(mean_a, mean_b), pooled_std)]

----------------------------------------------------------------------------
(* Calls of the statistics functions.                                      *)

MaxSamples == 2     \* most scores of a method

\* the per-query scores of a method
SampleScores == {Zero, Rat(1, 2), One}

\* the significance levels: two usual ones, one above every p-value, NaN
Alphas == {Rat(1, 20), Rat(1, 2), Rat(2, 1), NaN}

InitStats ==
    /\ ValidationIdle
    /\ BinaryIdle
    /\ BatchIdle
    /\ TrecIdle
    /\ metrics = <<>>
    /\ picked = <<>>
    /\ results = NoResults
    /\ method_a \in SeqsUpTo(SampleScores, MaxSamples)
    /\ method_b \in SeqsUpTo(SampleScores, MaxSamples)
    /\ alpha \in Alphas
    /\ stat_result = NoStat

\* one call of a statistics function per behaviour
StatReturned(name, result) ==
    /\ op = "none"
    /\ stat_result.called = "none"
    /\ op' = name
    /\ stat_result' = result
    /\ UNCHANGED <<ranked, relevant, k, param, n_relevant, out>>
    /\ UNCHANGED <<method_a, method_b, alpha>>
    /\ UNCHANGED batchvars
    /\ UNCHANGED trecvars
    /\ UNCHANGED valvars

CallPairedTTest ==
    StatReturned("paired_t_test", paired_t_test(method_a, method_b, alpha))

CallCohensD == StatReturned("cohens_d", cohens_d(method_a, method_b))

NextStats ==
    \/ CallPairedTTest
    \/ CallCohensD

SpecStats == InitStats /\ [][NextStats]_vars

\* C23: paired_t_test on vectors of different lengths panics; on two vectors
\* of the same length n < 2 it returns t_statistic 0.0, p_value 1.0,
\* degrees_of_freedom 0, mean_difference 0.0, std_error 0.0 and significant
\* false; for n >= 2 it returns degrees_of_freedom n - 1.
C23_TooFewSamples ==
    op = "paired_t_test" =>
        IF Len(method_a) # Len(method_b) THEN stat_result.panicked
        ELSE /\ ~stat_result.panicked
             /\ Len(method_a) < 2 =>
                   /\ stat_result.t_statistic = Zero
                   /\ stat_result.p_value = One
                   /\ stat_result.degrees_of_freedom = 0
                   /\ stat_result.mean_difference = Zero
                   /\ stat_result.std_error = Zero
                   /\ stat_result.significant = FALSE
             /\ Len(method_a) >= 2 =>
                   stat_result.degrees_of_freedom = Len(method_a) - 1

C23_Witness ==
    /\ op = "paired_t_test"
    /\ Len(method_a) = 1
    /\ Len(method_b) = 1
    /\ method_a # method_b
    /\ ~stat_result.panicked
    /\ stat_result.p_value = One
    /\ stat_result.mean_difference = Zero

\* C24: in every TTestResult of paired_t_test significant is (p_value < alpha),
\* for every length of the vectors and every alpha.
C24_SignificantIsPBelowAlpha ==
    (op = "paired_t_test" /\ ~stat_result.panicked) =>
        stat_result.significant = Lt(stat_result.p_value, alpha)

\* C25: cohens_d(v, v) is 0.0 for every vector v.
C25_IdenticalVectorsGiveZero ==
    (op = "cohens_d" /\ method_a = method_b) =>
        /\ ~stat_result.panicked
        /\ stat_result.value = Zero

====
